---- MODULE Spec2Model ----
(***************************************************************************)
(* Episode transformation tools of teleop/utils:                           *)
(*   cut_episode.py      (Cut)        one episode, frame range + reindex   *)
(*   filter_dataset2.py  (Filter)     batch, drops cameras / joint groups  *)
(*   filter_dataset.py   (Range-Copy) batch, whole-episode copy            *)
(* Each tool's main() is a sequential script; it is modelled as a program  *)
(* counter walking over the script's filesystem steps.  The filesystem is  *)
(* part of the state.                                                      *)
(***************************************************************************)
EXTENDS Integers, Sequences, FiniteSets, TLC

VARIABLES fs, fs0, tool, args, pc, err, j, cut, todo, sel, cur, refs, ops

vars == <<fs, fs0, tool, args, pc, err, j, cut, todo, sel, cur, refs, ops>>

\* ---------------------------------------------------------------- bounds
\* Longest frame list of a generated data.json.
MaxLen == 2
\* Highest episode index present under a batch source root.
MaxEp == 1
\* Most files of a source episode that are missing on disk.
MaxMissing == 1

\* ------------------------------------------------------------ JSON values
JNull == [t |-> "null"]
JStr(s) == [t |-> "str", s |-> s]
JInt(n) == [t |-> "int", n |-> n]
JMap(m) == [t |-> "map", m |-> m]
JList(l) == [t |-> "list", l |-> l]

IsMap(v) == v.t = "map"
IsStr(v) == v.t = "str"
IsList(v) == v.t = "list"

\* Python truthiness of a JSON value ("if not x").
Truthy(v) ==
  CASE v.t = "null" -> FALSE
    [] v.t = "str" -> v.s # <<>>
    [] v.t = "int" -> v.n # 0
    [] v.t = "map" -> DOMAIN v.m # {}
    [] v.t = "list" -> v.l # <<>>

\* dict.get(key, default) on a mapping given as a function.
Get(m, k, default) == IF k \in DOMAIN m THEN m[k] ELSE default

\* d[k] = v
Put(m, k, v) == [x \in DOMAIN m \cup {k} |-> IF x = k THEN v ELSE m[x]]

\* {k: v for k, v in d.items() if k not in drop}
Without(m, drop) == [x \in DOMAIN m \ drop |-> m[x]]

EmptyMap == [x \in {} |-> JNull]

Min(a, b) == IF a < b THEN a ELSE b
Max(a, b) == IF a > b THEN a ELSE b

Range(s) == {s[i] : i \in DOMAIN s}

RECURSIVE SetToSeq(_)
\* One fixed enumeration of a finite set (the iteration order of a dict).
SetToSeq(S) ==
  IF S = {} THEN <<>>
  ELSE LET x == CHOOSE y \in S : TRUE IN <<x>> \o SetToSeq(S \ {x})

RECURSIVE Flatten(_)
Flatten(ss) == IF ss = <<>> THEN <<>> ELSE Head(ss) \o Flatten(Tail(ss))

\* ------------------------------------------------------------------ paths
\* A relative path is the sequence of its components; "" is <<>>.
PData == <<"data.json">>
PMeta == <<"meta.txt">>
PC0 == <<"colors", "c0">>
PC1 == <<"colors", "c1">>
PD0 == <<"depths", "d0">>
PA0 == <<"audios", "a0">>
NoPath == <<>>

Paths == {PData, PMeta, PC0, PC1, PD0, PA0}

\* sorted() order of the path strings:
\* audios/a0 < colors/c0 < colors/c1 < data.json < depths/d0 < meta.txt
PathOrder == <<PA0, PC0, PC1, PData, PD0, PMeta>>

\* Path.parent of a relative path.
Parent(p) == SubSeq(p, 1, Len(p) - 1)

\* The directories mkdir(parents=True) makes sure exist for directory d.
Ancestors(d) == {SubSeq(d, 1, n) : n \in 1..Len(d)}

IsRootLevel(p) == Len(p) = 1

\* ----------------------------------------------------------------- frames
Qpos == JStr(<<"qpos">>)

FrameA ==
  [idx |-> JInt(5),
   colors |-> JMap([color_0 |-> JStr(PC0), color_1 |-> JStr(PC1)]),
   depths |-> JMap([depth_0 |-> JStr(PD0)]),
   audios |-> JNull,
   states |-> JMap([left_arm |-> Qpos, right_arm |-> Qpos]),
   actions |-> JMap([left_arm |-> Qpos, right_arm |-> Qpos])]

\* no idx; a sidecar file and the metadata document itself named as assets;
\* a camera path shared with the depth stream; an empty path.
FrameB ==
  [colors |-> JMap([color_0 |-> JStr(PC0), color_1 |-> JStr(PMeta)]),
   depths |-> JMap([depth_0 |-> JStr(PC1), depth_1 |-> JStr(PData)]),
   audios |-> JMap([mic |-> JStr(PA0), aux |-> JStr(NoPath)]),
   states |-> JMap([left_arm |-> Qpos, right_arm |-> Qpos]),
   actions |-> JMap([left_arm |-> Qpos, right_arm |-> Qpos])]

\* no colors key, null depths, audios as a single path string.
FrameC ==
  [idx |-> JInt(5),
   depths |-> JNull,
   audios |-> JStr(PA0),
   states |-> JMap([left_arm |-> Qpos])]

Frames == {FrameA, FrameB, FrameC}

FrameLists == UNION {[1..n -> Frames] : n \in 0..MaxLen}

Info ==
  JMap([joint_names |-> JMap([left_arm |-> Qpos, right_arm |-> Qpos]),
        tactile_names |-> JMap([right_arm |-> Qpos]),
        fps |-> JInt(30)])

MkDoc(frames) == [info |-> Info, note |-> JStr(<<"n">>), data |-> JList(frames)]

DocNoData == [info |-> Info, note |-> JStr(<<"n">>)]
DocNullData == [info |-> Info, data |-> JNull]

Docs == {MkDoc(l) : l \in FrameLists} \cup {DocNoData, DocNullData}

NoDoc == [none |-> TRUE]

\* ------------------------------------------------------------- filesystem
Blob(id) == [tag |-> "blob", id |-> id]
DocFile(d) == [tag |-> "doc", doc |-> d]

NoFiles == [p \in {} |-> Blob("x")]
NoEntry == [isdir |-> FALSE, files |-> NoFiles, dirs |-> {}]
NoEntries == [n \in {} |-> NoEntry]
NoRoot == [exists |-> FALSE, entries |-> NoEntries]

EpNames == <<"episode_0000", "episode_0001", "episode_0002", "episode_0003",
             "episode_0004">>

\* f"episode_{i:04d}"
EpName(i) == EpNames[i + 1]

HasEntry(f, r, n) == f[r].exists /\ n \in DOMAIN f[r].entries
IsDir(f, r, n) == HasEntry(f, r, n) /\ f[r].entries[n].isdir
EntryOf(f, r, n) == IF HasEntry(f, r, n) THEN f[r].entries[n] ELSE NoEntry
FileExists(f, r, n, p) == IsDir(f, r, n) /\ p \in DOMAIN f[r].entries[n].files
FileAt(f, r, n, p) == f[r].entries[n].files[p]

SetEntry(f, r, n, e) ==
  [f EXCEPT ![r] = [exists |-> TRUE, entries |-> Put(f[r].entries, n, e)]]

\* Path.mkdir(parents=True, exist_ok=True) of directory d (<<>>: the episode
\* directory itself) under episode n of root r.
MkDirs(f, r, n, d) ==
  LET e == EntryOf(f, r, n) IN
  SetEntry(f, r, n, [isdir |-> TRUE, files |-> e.files,
                     dirs |-> e.dirs \cup Ancestors(d)])

\* write or overwrite one file
PutFile(f, r, n, p, c) ==
  LET e == EntryOf(f, r, n) IN
  SetEntry(f, r, n, [e EXCEPT !.isdir = TRUE, !.files = Put(e.files, p, c)])

\* shutil.rmtree(root)
RmTree(f, r) == [f EXCEPT ![r] = NoRoot]

Op(o, r, n, p) == [op |-> o, root |-> r, ep |-> n, path |-> p]

\* ---------------------------------------------------------- initial disk
SrcBlob(p) == Blob(<<"src">> \o p)
OldBlob == Blob(<<"old">>)

\* A recorded episode: the metadata document, one sidecar file and the asset
\* files, except the ones in missing.
SrcEpisode(doc, missing) ==
  LET present == Paths \ missing IN
  [isdir |-> TRUE,
   files |-> [p \in present |-> IF p = PData THEN DocFile(doc) ELSE SrcBlob(p)],
   dirs |-> {Parent(p) : p \in present} \ {<<>>}]

\* An episode directory left by an earlier run.
OldEpisode ==
  [isdir |-> TRUE,
   files |-> [p \in {PData, PC0} |->
                IF p = PData THEN DocFile(MkDoc(<<FrameA>>)) ELSE OldBlob],
   dirs |-> {<<"colors">>}]

\* A root-level file of the task directory that is no episode.
Notes == [isdir |-> FALSE, files |-> NoFiles, dirs |-> {}]

MissingSets == {m \in SUBSET Paths : Cardinality(m) <= MaxMissing}

\* ------------------------------------------------------------------- Cut
\* cut_episode.py main(), lines 68-69.
ClampStart(start) == Max(0, start)
ClampEnd(len, end) == Min(len, end)

\* A slice bound as Python normalises it: a negative bound counts from the
\* end, and both ends are cut to the list.
SliceBound(i, len) == IF i < 0 THEN Max(i + len, 0) ELSE Min(i, len)

\* frames[start:end]
Slice(frames, start, end) ==
  LET lo == SliceBound(start, Len(frames))
      hi == SliceBound(end, Len(frames))
  IN [k \in 1..Max(hi - lo, 0) |-> frames[lo + k]]

\* Mutant of InvalidRange: an empty range is let through.
InvalidRange_strict(start, end) == end < start

\* line 70: if end <= start
InvalidRange(start, end) == end <= start

\* Mutant of Reindex: numbering starts at 1.
Reindex_from1(frames) == [i \in 1..Len(frames) |-> Put(frames[i], "idx", JInt(i))]

\* for i, fr in enumerate(cut): fr["idx"] = i
Reindex(frames) == [i \in 1..Len(frames) |-> Put(frames[i], "idx", JInt(i - 1))]

\* The frames Cut writes.
CutFrames(frames, start, end, keep_idx) ==
  LET c == Slice(frames, start, end) IN IF keep_idx THEN c ELSE Reindex(c)

\* out = dict(j); out["data"] = cut
CutDoc(doc, frames) == Put(doc, "data", JList(frames))

\* What the copy of one referenced file does (cut_episode.py lines 37-41,
\* filter_dataset2.py lines 244-247): a missing source file is skipped;
\* shutil.copy2 raises SameFileError when source and destination are one file.
CopyStatus(exists, samefile) ==
  IF ~exists THEN "skipped"
  ELSE IF samefile THEN "SameFileError" ELSE "copied"

Crash == [kind |-> "crash", rel |-> NoPath]
CopyItem(p) == [kind |-> "copy", rel |-> p]

\* One section of one frame in Cut's copy loop: sec = fr.get(section, {}) or
\* {}; sec.items() raises on anything but a mapping; empty paths are skipped.
CutSectionWork(fr, section) ==
  LET v == Get(fr, section, JMap(EmptyMap)) IN
  IF ~Truthy(v) THEN <<>>
  ELSE IF ~IsMap(v) THEN <<Crash>>
  ELSE LET ks == SetToSeq(DOMAIN v.m) IN
       Flatten([i \in 1..Len(ks) |->
                  IF Truthy(v.m[ks[i]]) THEN <<CopyItem(v.m[ks[i]].s)>>
                  ELSE <<>>])

CutSections == <<"colors", "depths", "audios">>

\* The copy loop of Cut as the sequence of its effects, in loop order.
CutWork(frames) ==
  Flatten([i \in 1..Len(frames) |->
             Flatten([k \in 1..3 |-> CutSectionWork(frames[i], CutSections[k])])])

CutSrc == EpName(args.episode)
CutDst == EpName(args.out_episode)

Fail(e) ==
  /\ pc' = "error"
  /\ err' = e

\* lines 59-73: existence of data.json, load, empty check, range check
CutLoad ==
  /\ tool = "cut" /\ pc = "start"
  /\ UNCHANGED <<fs, fs0, tool, args, todo, sel, cur, refs, ops>>
  /\ IF ~FileExists(fs, "S", CutSrc, PData)
     THEN Fail("MissingMetadata") /\ UNCHANGED <<j, cut>>
     ELSE LET doc == FileAt(fs, "S", CutSrc, PData).doc
              frames == Get(doc, "data", JList(<<>>))
          IN /\ j' = doc
             /\ IF ~Truthy(frames)
                THEN Fail("EmptyEpisode") /\ UNCHANGED cut
                ELSE LET start == ClampStart(args.start)
                         end == ClampEnd(Len(frames.l), args.end)
                     IN IF InvalidRange(start, end)
                        THEN Fail("InvalidRange") /\ UNCHANGED cut
                        ELSE /\ cut' = Slice(frames.l, start, end)
                             /\ pc' = "mkdirs"
                             /\ UNCHANGED err

\* lines 76-79: the output episode folder and its three subfolders
CutMkdirs ==
  /\ tool = "cut" /\ pc = "mkdirs"
  /\ LET f1 == MkDirs(fs, "S", CutDst, <<>>)
         f2 == MkDirs(f1, "S", CutDst, <<"colors">>)
         f3 == MkDirs(f2, "S", CutDst, <<"depths">>)
         f4 == MkDirs(f3, "S", CutDst, <<"audios">>)
     IN /\ fs' = f4
        /\ ops' = IF f4 # fs THEN Append(ops, Op("mkdir", "S", CutDst, <<>>))
                  ELSE ops
  /\ todo' = CutWork(cut)
  /\ pc' = "copy"
  /\ UNCHANGED <<fs0, tool, args, err, j, cut, sel, cur, refs>>

\* copy_rel_file, lines 33-41, for one referenced path. shutil.copy2 raises
\* SameFileError when source and destination are the same file.
CutCopy ==
  /\ tool = "cut" /\ pc = "copy" /\ todo # <<>>
  /\ LET it == Head(todo)
         f1 == MkDirs(fs, "S", CutDst, Parent(it.rel))
         o1 == IF f1 # fs THEN Append(ops, Op("mkdir", "S", CutDst, Parent(it.rel)))
               ELSE ops
         st == CopyStatus(FileExists(f1, "S", CutSrc, it.rel), CutSrc = CutDst)
     IN IF it.kind = "crash"
        THEN Fail("AttributeError") /\ UNCHANGED <<fs, ops, todo>>
        ELSE IF st = "skipped"
        THEN /\ fs' = f1 /\ ops' = o1
             /\ todo' = Tail(todo)
             /\ UNCHANGED <<pc, err>>
        ELSE IF st = "copied"
        THEN /\ fs' = PutFile(f1, "S", CutDst, it.rel, FileAt(f1, "S", CutSrc, it.rel))
             /\ ops' = Append(o1, Op("copy", "S", CutDst, it.rel))
             /\ todo' = Tail(todo)
             /\ UNCHANGED <<pc, err>>
        ELSE /\ fs' = f1 /\ ops' = o1
             /\ Fail(st) /\ UNCHANGED todo
  /\ UNCHANGED <<fs0, tool, args, j, cut, sel, cur, refs>>

\* lines 92-99: reindex unless --keep-idx, then write data.json
CutSave ==
  /\ tool = "cut" /\ pc = "copy" /\ todo = <<>>
  /\ cut' = IF args.keep_idx THEN cut ELSE Reindex(cut)
  /\ fs' = PutFile(MkDirs(fs, "S", CutDst, <<>>), "S", CutDst, PData,
                   DocFile(CutDoc(j, cut')))
  /\ ops' = Append(ops, Op("write", "S", CutDst, PData))
  /\ pc' = "done"
  /\ UNCHANGED <<fs0, tool, args, err, j, todo, sel, cur, refs>>

\* The task directory Cut runs in: episode 0 recorded, episode 1 left by an
\* earlier run, episode 2 free.
CutDisk(doc, missing) ==
  [S |-> [exists |-> TRUE,
          entries |-> [n \in {EpName(0), EpName(1), "notes.txt"} |->
                         IF n = EpName(0) THEN SrcEpisode(doc, missing)
                         ELSE IF n = EpName(1) THEN OldEpisode ELSE Notes]],
   D |-> NoRoot]

CutArgs(out, start, end, keep) ==
  [episode |-> 0, out_episode |-> out, start |-> start, end |-> end,
   keep_idx |-> keep]

\* Either the range varies over a complete episode written to a free index,
\* or the disk and the output index vary under a whole or a tail range.
InitCut ==
  \E doc \in Docs, missing \in MissingSets, out \in 0..2,
     start \in -1..(MaxLen + 1), end \in -1..(MaxLen + 1), keep \in BOOLEAN :
    /\ \/ missing = {} /\ out = 2
       \/ <<start, end>> \in {<<0, MaxLen>>, <<1, MaxLen + 1>>}
    /\ fs = CutDisk(doc, missing)
    /\ tool = "cut"
    /\ args = CutArgs(out, start, end, keep)

\* ---------------------------------------------------------------- Filter
\* filter_dataset2.py lines 187-189, for one step
DropCamerasInStep(step, K) ==
  IF "colors" \in DOMAIN step /\ IsMap(step["colors"])
  THEN Put(step, "colors", JMap(Without(step["colors"].m, K)))
  ELSE step

\* Mutant of FilterCameras: the loop stops after the first step.
FilterCameras_first(frames, K) ==
  IF K = {} THEN frames
  ELSE [i \in 1..Len(frames) |->
          IF i = 1 /\ "colors" \in DOMAIN frames[i] /\ IsMap(frames[i]["colors"])
          THEN Put(frames[i], "colors", JMap(Without(frames[i]["colors"].m, K)))
          ELSE frames[i]]

\* lines 183-189: "if drop_cameras:" over every step of the data list
FilterCameras(frames, K) ==
  IF K = {} THEN frames
  ELSE [i \in 1..Len(frames) |-> DropCamerasInStep(frames[i], K)]

RECURSIVE PopAll(_, _, _)
\* sec.pop(group, None) in section key, for every group of G
PopAll(step, key, G) ==
  IF G = {} THEN step
  ELSE LET g == CHOOSE x \in G : TRUE
           s1 == IF key \in DOMAIN step /\ IsMap(step[key])
                 THEN Put(step, key, JMap(Without(step[key].m, {g})))
                 ELSE step
       IN PopAll(s1, key, G \ {g})

\* Mutant of DropGroupsInStep: only the states section is visited.
DropGroupsInStep_states(step, G) == PopAll(step, "states", G)

\* drop_group_in_step for every group of G
DropGroupsInStep(step, G) == PopAll(PopAll(step, "states", G), "actions", G)

\* lines 192-197
FilterJointGroups(frames, G) ==
  IF G = {} THEN frames
  ELSE [i \in 1..Len(frames) |-> DropGroupsInStep(frames[i], G)]

\* lines 200-216: the name tables of the info block; a missing table is
\* created empty, and info itself is created when it was absent
DropInfoGroups(dj, G) ==
  LET info == Get(dj, "info", JMap(EmptyMap)) IN
  IF G = {} \/ ~IsMap(info) THEN dj
  ELSE LET jn == Get(info.m, "joint_names", JMap(EmptyMap))
           i1 == IF IsMap(jn)
                 THEN Put(info.m, "joint_names", JMap(Without(jn.m, G)))
                 ELSE info.m
           tn == Get(i1, "tactile_names", JMap(EmptyMap))
           i2 == IF IsMap(tn)
                 THEN Put(i1, "tactile_names", JMap(Without(tn.m, G)))
                 ELSE i1
       IN IF IsMap(jn) \/ IsMap(tn) THEN Put(dj, "info", JMap(i2)) ELSE dj

\* lines 182-216 on a document whose data is a list: the steps are edited in
\* place, so a document without a data key keeps none
FilterDoc(dj, K, G) ==
  LET d1 == IF "data" \in DOMAIN dj
            THEN Put(dj, "data",
                     JList(FilterJointGroups(FilterCameras(dj["data"].l, K), G)))
            ELSE dj
  IN DropInfoGroups(d1, G)

\* the non-empty string values of a mapping
MapPaths(v) == {v.m[k].s : k \in {x \in DOMAIN v.m : IsStr(v.m[x]) /\ Truthy(v.m[x])}}

\* collect_referenced_files, lines 57-70, for one step
StepRefs(step) ==
  LET c == Get(step, "colors", JMap(EmptyMap))
      d == Get(step, "depths", JMap(EmptyMap))
      a == Get(step, "audios", JNull)
  IN (IF IsMap(c) THEN MapPaths(c) ELSE {})
     \cup (IF IsMap(d) THEN MapPaths(d) ELSE {})
     \cup (IF IsMap(a) THEN MapPaths(a)
           ELSE IF IsStr(a) /\ Truthy(a) THEN {a.s} ELSE {})

FramesRefs(frames) == UNION {StepRefs(frames[i]) : i \in 1..Len(frames)}

collect_referenced_files(dj) ==
  LET dl == Get(dj, "data", JList(<<>>)) IN
  IF ~IsList(dl) THEN {} ELSE FramesRefs(dl.l)

\* Mutant of SortedRefs: the last path of the order is left out.
SortedRefs_short(rs) ==
  LET q == SelectSeq(PathOrder, LAMBDA p : p \in rs) IN SubSeq(q, 1, Len(q) - 1)

\* for rel in sorted(refs)
SortedRefs(rs) == SelectSeq(PathOrder, LAMBDA p : p \in rs)

\* ------------------------------------------------------ batch: both tools
\* EP_RE = ^episode_(\d+)$ over the entry names of a root
EpMatch(n) == n \in Range(EpNames)
EpIndex(n) == CHOOSE i \in 0..(Len(EpNames) - 1) : EpName(i) = n

RECURSIVE SortByIdx(_)
\* episodes.sort(key=lambda t: t[0])
SortByIdx(ns) ==
  IF ns = {} THEN <<>>
  ELSE LET n == CHOOSE x \in ns : \A y \in ns : EpIndex(x) <= EpIndex(y)
       IN <<n>> \o SortByIdx(ns \ {n})

\* the (index, path) list of the episode folders under root r
Episodes(f, r) ==
  SortByIdx({n \in DOMAIN f[r].entries : f[r].entries[n].isdir /\ EpMatch(n)})

\* [(i, p) for (i, p) in episodes if init <= i <= end]
Selected(eps, init, end) ==
  SelectSeq(eps, LAMBDA n : init <= EpIndex(n) /\ EpIndex(n) <= end)

\* dst = dst_parent / f"{src.name}{suffix}", dst_parent the parent of src:
\* the empty suffix names the source root itself
DstRoot == IF args.suffix = "" THEN "S" ELSE "D"

\* "Prepare destination root" of both batch tools
PrepareDst ==
  /\ pc = "prep"
  /\ IF ~fs[DstRoot].exists
     THEN /\ pc' = "collect" /\ UNCHANGED <<fs, ops, err>>
     ELSE IF ~args.overwrite
     THEN /\ Fail("DestinationExists") /\ UNCHANGED <<fs, ops>>
     ELSE IF args.dry_run
     THEN /\ pc' = "collect" /\ UNCHANGED <<fs, ops, err>>
     ELSE /\ fs' = RmTree(fs, DstRoot)
          /\ ops' = Append(ops, Op("rmtree", DstRoot, "", <<>>))
          /\ pc' = "collect" /\ UNCHANGED err
  /\ UNCHANGED <<fs0, tool, args, j, cut, todo, sel, cur, refs>>

\* "Create destination root" of both batch tools
MkRoot ==
  /\ pc = "mkroot"
  /\ IF args.dry_run
     THEN /\ pc' = "loop" /\ UNCHANGED <<fs, ops, err>>
     ELSE IF fs[DstRoot].exists
     THEN /\ Fail("FileExistsError") /\ UNCHANGED <<fs, ops>>
     ELSE /\ fs' = [fs EXCEPT ![DstRoot].exists = TRUE]
          /\ ops' = Append(ops, Op("mkdir", DstRoot, "", <<>>))
          /\ pc' = "loop" /\ UNCHANGED err
  /\ UNCHANGED <<fs0, tool, args, j, cut, todo, sel, cur, refs>>

\* filter_dataset2.py lines 101-108
FilterValidate ==
  /\ tool = "filter" /\ pc = "start"
  /\ IF ~fs["S"].exists
        \/ args.init < 0 \/ args.end < -1
        \/ (args.init > args.end /\ args.end # -1)
     THEN Fail("Usage")
     ELSE pc' = "prep" /\ UNCHANGED err
  /\ UNCHANGED <<fs, fs0, tool, args, j, cut, todo, sel, cur, refs, ops>>

FilterPrepare == tool = "filter" /\ PrepareDst

\* lines 130-149; src.iterdir() raises when the source root is gone, and
\* episodes[-1] raises on an empty list
FilterCollect ==
  /\ tool = "filter" /\ pc = "collect"
  /\ IF ~fs["S"].exists
     THEN Fail("FileNotFoundError") /\ UNCHANGED <<args, sel>>
     ELSE LET eps == Episodes(fs, "S") IN
          IF args.end = -1 /\ eps = <<>>
          THEN Fail("IndexError") /\ UNCHANGED <<args, sel>>
          ELSE LET end == IF args.end = -1 THEN EpIndex(eps[Len(eps)])
                          ELSE args.end
                   s == Selected(eps, args.init, end)
               IN /\ args' = [args EXCEPT !.end = end]
                  /\ IF s = <<>>
                     THEN Fail("NoEpisodes") /\ UNCHANGED sel
                     ELSE sel' = s /\ pc' = "mkroot" /\ UNCHANGED err
  /\ UNCHANGED <<fs, fs0, tool, j, cut, todo, cur, refs, ops>>

FilterMkRoot == tool = "filter" /\ MkRoot

\* lines 166-226: one selected episode up to the dry-run report
FilterLoad ==
  /\ tool = "filter" /\ pc = "loop" /\ sel # <<>>
  /\ LET ep == Head(sel) IN
     IF ~FileExists(fs, "S", ep, PData)
     THEN Fail("MissingMetadata") /\ UNCHANGED <<j, refs, cur, sel>>
     ELSE LET dj == FileAt(fs, "S", ep, PData).doc IN
          IF ~IsList(Get(dj, "data", JList(<<>>)))
          THEN Fail("InvalidData") /\ UNCHANGED <<j, refs, cur, sel>>
          ELSE LET out == FilterDoc(dj, args.drop_cameras, args.drop_joint_groups)
               IN /\ j' = out
                  /\ refs' = collect_referenced_files(out)
                  /\ cur' = ep
                  /\ UNCHANGED err
                  /\ IF args.dry_run
                     THEN sel' = Tail(sel) /\ UNCHANGED pc
                     ELSE pc' = "mkep" /\ UNCHANGED sel
  /\ UNCHANGED <<fs, fs0, tool, args, cut, todo, ops>>

\* line 228: out_ep.mkdir(parents=True, exist_ok=False)
FilterMkEp ==
  /\ tool = "filter" /\ pc = "mkep"
  /\ IF HasEntry(fs, DstRoot, cur)
     THEN Fail("FileExistsError") /\ UNCHANGED <<fs, ops>>
     ELSE /\ fs' = MkDirs(fs, DstRoot, cur, <<>>)
          /\ ops' = Append(ops, Op("mkdir", DstRoot, cur, <<>>))
          /\ pc' = "aux" /\ UNCHANGED err
  /\ UNCHANGED <<fs0, tool, args, j, cut, todo, sel, cur, refs>>

RECURSIVE CopyAll(_, _, _, _, _)
\* shutil.copy2 of every path of ps from episode n of root r to root d
CopyAll(f, r, d, n, ps) ==
  IF ps = {} THEN f
  ELSE LET p == CHOOSE x \in ps : TRUE IN
       CopyAll(PutFile(f, d, n, p, FileAt(f, r, n, p)), r, d, n, ps \ {p})

\* the root-level files of an episode other than data.json
AuxFiles(f, r, n) ==
  {p \in DOMAIN EntryOf(f, r, n).files : IsRootLevel(p) /\ p # PData}

\* lines 230-233
FilterAux ==
  /\ tool = "filter" /\ pc = "aux"
  /\ LET ps == AuxFiles(fs, "S", cur)
         order == SetToSeq(ps)
     IN /\ fs' = CopyAll(fs, "S", DstRoot, cur, ps)
        /\ ops' = ops \o [i \in 1..Len(order) |-> Op("copy", DstRoot, cur, order[i])]
  /\ pc' = "write"
  /\ UNCHANGED <<fs0, tool, args, err, j, cut, todo, sel, cur, refs>>

\* lines 235-237
FilterWrite ==
  /\ tool = "filter" /\ pc = "write"
  /\ fs' = PutFile(fs, DstRoot, cur, PData, DocFile(j))
  /\ ops' = Append(ops, Op("write", DstRoot, cur, PData))
  /\ todo' = SortedRefs(refs)
  /\ pc' = "copy"
  /\ UNCHANGED <<fs0, tool, args, err, j, cut, sel, cur, refs>>

\* lines 240-247 for one referenced path
FilterCopy ==
  /\ tool = "filter" /\ pc = "copy" /\ todo # <<>>
  /\ LET rel == Head(todo)
         f1 == MkDirs(fs, DstRoot, cur, Parent(rel))
         o1 == IF f1 # fs THEN Append(ops, Op("mkdir", DstRoot, cur, Parent(rel)))
               ELSE ops
         st == CopyStatus(FileExists(f1, "S", cur, rel), DstRoot = "S")
     IN IF st = "skipped"
        THEN /\ fs' = f1 /\ ops' = o1
             /\ todo' = Tail(todo)
             /\ UNCHANGED <<pc, err>>
        ELSE IF st = "copied"
        THEN /\ fs' = PutFile(f1, DstRoot, cur, rel, FileAt(f1, "S", cur, rel))
             /\ ops' = Append(o1, Op("copy", DstRoot, cur, rel))
             /\ todo' = Tail(todo)
             /\ UNCHANGED <<pc, err>>
        ELSE /\ fs' = f1 /\ ops' = o1
             /\ Fail(st) /\ UNCHANGED todo
  /\ UNCHANGED <<fs0, tool, args, j, cut, sel, cur, refs>>

\* the end of one pass of the episode loop
FilterNext ==
  /\ tool = "filter" /\ pc = "copy" /\ todo = <<>>
  /\ sel' = Tail(sel)
  /\ pc' = "loop"
  /\ UNCHANGED <<fs, fs0, tool, args, err, j, cut, todo, cur, refs, ops>>

\* lines 249-250
FilterDone ==
  /\ tool = "filter" /\ pc = "loop" /\ sel = <<>>
  /\ pc' = "done"
  /\ UNCHANGED <<fs, fs0, tool, args, err, j, cut, todo, sel, cur, refs, ops>>

\* ------------------------------------------------------------ Range-Copy
\* filter_dataset.py lines 37-44
CopyValidate ==
  /\ tool = "copy" /\ pc = "start"
  /\ IF ~fs["S"].exists \/ args.init < 0 \/ args.end < 0 \/ args.init > args.end
     THEN Fail("Usage")
     ELSE pc' = "prep" /\ UNCHANGED err
  /\ UNCHANGED <<fs, fs0, tool, args, j, cut, todo, sel, cur, refs, ops>>

CopyPrepare == tool = "copy" /\ PrepareDst

\* lines 62-79
CopyCollect ==
  /\ tool = "copy" /\ pc = "collect"
  /\ IF ~fs["S"].exists
     THEN Fail("FileNotFoundError") /\ UNCHANGED sel
     ELSE LET s == Selected(Episodes(fs, "S"), args.init, args.end) IN
          IF s = <<>>
          THEN Fail("NoEpisodes") /\ UNCHANGED sel
          ELSE sel' = s /\ pc' = "mkroot" /\ UNCHANGED err
  /\ UNCHANGED <<fs, fs0, tool, args, j, cut, todo, cur, refs, ops>>

CopyMkRoot == tool = "copy" /\ MkRoot

\* lines 92-97: shutil.copytree of one selected episode
CopyEpisode ==
  /\ tool = "copy" /\ pc = "loop" /\ sel # <<>>
  /\ LET ep == Head(sel) IN
     IF args.dry_run
     THEN UNCHANGED <<fs, ops, pc, err>>
     ELSE IF HasEntry(fs, DstRoot, ep)
     THEN Fail("FileExistsError") /\ UNCHANGED <<fs, ops>>
     ELSE /\ fs' = SetEntry(fs, DstRoot, ep, EntryOf(fs, "S", ep))
          /\ ops' = Append(ops, Op("copytree", DstRoot, ep, <<>>))
          /\ UNCHANGED <<pc, err>>
  /\ cur' = Head(sel)
  /\ sel' = IF pc' = "error" THEN sel ELSE Tail(sel)
  /\ UNCHANGED <<fs0, tool, args, j, cut, todo, refs>>

\* line 99
CopyDone ==
  /\ tool = "copy" /\ pc = "loop" /\ sel = <<>>
  /\ pc' = "done"
  /\ UNCHANGED <<fs, fs0, tool, args, err, j, cut, todo, sel, cur, refs, ops>>

\* ------------------------------------------------------------ batch disks
GoodEpisode == SrcEpisode(MkDoc(<<FrameA>>), {})
NoMetaEpisode == SrcEpisode(MkDoc(<<FrameA>>), {PData})
NullDataEpisode == SrcEpisode(DocNullData, {})

EpKinds == {NoEntry, GoodEpisode, NoMetaEpisode, NullDataEpisode}

\* A directory of the source root whose name is no episode name.
Scratch == [isdir |-> TRUE, files |-> NoFiles, dirs |-> {}]

\* The source root: the episodes of world w (NoEntry: no such episode), a
\* file and a directory that are no episodes.
SrcRoot(w) ==
  LET eps == {n \in DOMAIN w : w[n] # NoEntry} IN
  [exists |-> TRUE,
   entries |-> [n \in eps \cup {"notes.txt", "episode_x"} |->
                  IF n \in eps THEN w[n]
                  ELSE IF n = "notes.txt" THEN Notes ELSE Scratch]]

\* The destination root left by an earlier run.
OldRoot == [exists |-> TRUE, entries |-> [n \in {EpName(0)} |-> OldEpisode]]

DstStates == {NoRoot, OldRoot}

BatchNames == {EpName(i) : i \in 0..MaxEp}

BatchArgs(init, end, suffix, overwrite, dry, K, G) ==
  [init |-> init, end |-> end, suffix |-> suffix, overwrite |-> overwrite,
   dry_run |-> dry, drop_cameras |-> K, drop_joint_groups |-> G]

\* Either the content of episode 0 and the drop sets vary in a plain run over
\* the whole root, or the episodes present, the range and the destination
\* flags vary.
InitFilter ==
  \E doc \in Docs, missing \in MissingSets, w \in [BatchNames -> EpKinds],
     init \in 0..MaxEp, end \in -1..MaxEp, suffix \in {"", "_f"},
     overwrite \in BOOLEAN, dry \in BOOLEAN, d \in DstStates,
     K \in {{}, {"color_1"}}, G \in {{}, {"right_arm"}} :
    /\ \/ /\ init = 0 /\ end = -1 /\ suffix = "_f" /\ ~overwrite /\ ~dry
          /\ d = NoRoot
          /\ \E k \in {NoEntry, GoodEpisode} : \A n \in BatchNames : w[n] = k
          /\ fs = [S |-> SrcRoot(Put(w, EpName(0), SrcEpisode(doc, missing))),
                   D |-> d]
       \/ /\ doc = MkDoc(<<FrameA>>) /\ missing = {} /\ G = {}
          /\ fs = [S |-> SrcRoot(w), D |-> d]
    /\ tool = "filter"
    /\ args = BatchArgs(init, end, suffix, overwrite, dry, K, G)

InitCopy ==
  \E w \in [BatchNames -> EpKinds], init \in 0..MaxEp, end \in -1..MaxEp,
     suffix \in {"", "_f"}, overwrite \in BOOLEAN, dry \in BOOLEAN,
     d \in DstStates :
    /\ fs = [S |-> SrcRoot(w), D |-> d]
    /\ tool = "copy"
    /\ args = [init |-> init, end |-> end, suffix |-> suffix,
               overwrite |-> overwrite, dry_run |-> dry]

InitLocals ==
  /\ fs0 = fs
  /\ pc = "start"
  /\ err = "none"
  /\ j = NoDoc
  /\ cut = <<>>
  /\ todo = <<>>
  /\ sel = <<>>
  /\ cur = ""
  /\ refs = {}
  /\ ops = <<>>

Init == (InitCut \/ InitFilter \/ InitCopy) /\ InitLocals

NextCut == CutLoad \/ CutMkdirs \/ CutCopy \/ CutSave

NextFilter ==
  \/ FilterValidate \/ FilterPrepare \/ FilterCollect \/ FilterMkRoot
  \/ FilterLoad \/ FilterMkEp \/ FilterAux \/ FilterWrite \/ FilterCopy
  \/ FilterNext \/ FilterDone

NextCopy ==
  \/ CopyValidate \/ CopyPrepare \/ CopyCollect \/ CopyMkRoot
  \/ CopyEpisode \/ CopyDone

Next == NextCut \/ NextFilter \/ NextCopy

Spec == Init /\ [][Next]_vars

\* ================================================================ claims
Batch == tool \in {"filter", "copy"}
Ended == pc \in {"done", "error"}

\* The source of a run: the input episode of Cut, the source root of a
\* batch tool.
SrcTree(f) == IF tool = "cut" THEN EntryOf(f, "S", CutSrc) ELSE f["S"]

\* The destination of a run: the output episode of Cut, the destination
\* root of a batch tool.
DstTree(f) == IF tool = "cut" THEN EntryOf(f, "S", CutDst) ELSE f[DstRoot]

\* The destination, a directory other than the source, held files before the
\* run and the caller gave no overwrite directive (Cut has none to give).
DstOccupied ==
  IF tool = "cut"
  THEN /\ CutDst # CutSrc
       /\ IsDir(fs0, "S", CutDst) /\ DOMAIN EntryOf(fs0, "S", CutDst).files # {}
  ELSE fs0[DstRoot].exists /\ DOMAIN fs0[DstRoot].entries # {} /\ ~args.overwrite

\* C1: a run whose destination exists and is non-empty, with no overwrite
\* directive, never completes, and the destination is at every step what it
\* was before the run.
C1_FailClosed ==
  DstOccupied => /\ DstTree(fs) = DstTree(fs0)
                 /\ pc # "done"
                 /\ (pc = "error" =>
                       err \in {"DestinationExists", "Usage", "MissingMetadata",
                                "EmptyEpisode", "InvalidRange"})

\* C2: the source tree is at every step of every run what it was before the
\* run.
C2_SourceUnchanged == SrcTree(fs) = SrcTree(fs0)

\* C3: a run that ends in MissingMetadata, EmptyEpisode or InvalidRange has
\* changed nothing on disk.
C3_FailBeforeDisk ==
  (pc = "error" /\ err \in {"MissingMetadata", "EmptyEpisode", "InvalidRange"})
    => (fs = fs0 /\ ops = <<>>)

\* The frame list of Cut's input episode as it was on disk before the run.
CutSrcFrames ==
  LET doc == FileAt(fs0, "S", CutSrc, PData).doc IN Get(doc, "data", JList(<<>>)).l

\* Cut has loaded an episode with at least one frame.
CutLoaded ==
  /\ tool = "cut" /\ pc # "start"
  /\ FileExists(fs0, "S", CutSrc, PData)
  /\ Truthy(Get(FileAt(fs0, "S", CutSrc, PData).doc, "data", JList(<<>>)))

\* frames at positions [lo, hi), counted from 0
Between(frames, lo, hi) == [k \in 1..(hi - lo) |-> frames[lo + k]]

\* C4 as stated: start is clamped into [0, len), end into [0, len]; the run
\* fails with InvalidRange exactly when the clamped end <= the clamped start
\* and otherwise keeps the frames [clamped start, clamped end).
C4_ClampBothEnds ==
  CutLoaded =>
    LET len == Len(CutSrcFrames)
        s0 == IF args.start < 0 THEN 0
              ELSE IF args.start > len - 1 THEN len - 1 ELSE args.start
        e0 == IF args.end < 0 THEN 0
              ELSE IF args.end > len THEN len ELSE args.end
    IN /\ (pc = "error" /\ err = "InvalidRange") <=> (e0 <= s0)
       /\ pc = "mkdirs" => cut = Between(CutSrcFrames, s0, e0)

\* C4 amended: start is raised to 0 when negative and end is lowered to len
\* when larger; the run fails with InvalidRange exactly when that end <= that
\* start, and otherwise keeps the frames [start, end), where then
\* 0 <= start < len and 0 < end <= len.
C4_ClampOneEndEach ==
  CutLoaded =>
    LET len == Len(CutSrcFrames)
        s0 == IF args.start < 0 THEN 0 ELSE args.start
        e0 == IF args.end > len THEN len ELSE args.end
    IN /\ (pc = "error" /\ err = "InvalidRange") <=> (e0 <= s0)
       /\ pc = "mkdirs" =>
            /\ cut = Between(CutSrcFrames, s0, e0)
            /\ 0 <= s0 /\ s0 < len /\ 0 < e0 /\ e0 <= len

\* C4 witness: a start below 0 and an end beyond the list, both clamped, and
\* the whole list kept.
C4_Witness ==
  /\ CutLoaded /\ pc = "mkdirs"
  /\ args.start < 0 /\ args.end > Len(CutSrcFrames)
  /\ Len(cut) = MaxLen

\* The document Cut left at the destination.
CutWritten == FileAt(fs, "S", CutDst, PData).doc

\* a frame without its idx field
StripIdx(fr) == Without(fr, {"idx"})

\* C5: for a range 0 <= start < end <= N over an episode of N frames, Cut
\* ends having written a document of exactly end-start frames, the k-th equal
\* to source frame start+k apart from idx, and every other top-level key as
\* in the source document.
C5_SliceWritten ==
  (/\ CutLoaded /\ Ended
   /\ 0 <= args.start /\ args.start < args.end
   /\ args.end <= Len(CutSrcFrames))
  => /\ pc = "done"
     /\ LET src == FileAt(fs0, "S", CutSrc, PData).doc
            out == CutWritten
        IN /\ DOMAIN out = DOMAIN src
           /\ \A k \in DOMAIN src \ {"data"} : out[k] = src[k]
           /\ IsList(out["data"])
           /\ Len(out["data"].l) = args.end - args.start
           /\ \A k \in 1..(args.end - args.start) :
                StripIdx(out["data"].l[k]) = StripIdx(CutSrcFrames[args.start + k])

\* C6: after a successful Cut, with reindexing the k-th written frame has idx
\* k (from 0), whatever the source idx was; with --keep-idx every written
\* frame has the idx of the source frame it came from, or none if that had
\* none.
C6_ReindexLaw ==
  (tool = "cut" /\ pc = "done") =>
    LET out == CutWritten["data"].l
        s0 == IF args.start < 0 THEN 0 ELSE args.start
    IN \A k \in 1..Len(out) :
         IF args.keep_idx
         THEN /\ ("idx" \in DOMAIN out[k]) <=> ("idx" \in DOMAIN CutSrcFrames[s0 + k])
              /\ "idx" \in DOMAIN out[k] => out[k]["idx"] = CutSrcFrames[s0 + k]["idx"]
         ELSE "idx" \in DOMAIN out[k] /\ out[k]["idx"] = JInt(k - 1)

\* C6 witness: a reindexing Cut of two frames, one whose source idx is not its
\* position and one without idx.
C6_Witness ==
  /\ tool = "cut" /\ pc = "done" /\ ~args.keep_idx
  /\ Len(cut) = 2
  /\ \E k \in 1..2 : "idx" \notin DOMAIN CutSrcFrames[k]
  /\ \E k \in 1..2 : "idx" \in DOMAIN CutSrcFrames[k] /\ CutSrcFrames[k]["idx"] # JInt(k - 1)

\* The metadata document of source episode e as it was before the run.
SrcDoc(e) == FileAt(fs0, "S", e, PData).doc

SrcDocFrames(e) == Get(SrcDoc(e), "data", JList(<<>>)).l

\* The run created episode e at its destination.
Materialised(e) ==
  \E i \in 1..Len(ops) :
    ops[i] \in {Op("mkdir", DstRoot, e, <<>>), Op("copytree", DstRoot, e, <<>>)}

\* the non-empty paths a frame names through its colors entries whose key is
\* in K (inK) or is not in K (~inK)
ViaColors(fr, K, inK) ==
  IF "colors" \in DOMAIN fr /\ fr["colors"].t = "map"
  THEN {fr["colors"].m[k].s :
          k \in {x \in DOMAIN fr["colors"].m :
                   /\ (x \in K) = inK
                   /\ fr["colors"].m[x].t = "str"
                   /\ fr["colors"].m[x].s # <<>>}}
  ELSE {}

\* the non-empty paths a frame names through depths or audios
ViaOther(fr) ==
  LET sec(key) ==
        IF key \notin DOMAIN fr THEN {}
        ELSE IF fr[key].t = "map"
        THEN {fr[key].m[k].s :
                k \in {x \in DOMAIN fr[key].m :
                         fr[key].m[x].t = "str" /\ fr[key].m[x].s # <<>>}}
        ELSE IF key = "audios" /\ fr[key].t = "str" /\ fr[key].s # <<>>
        THEN {fr[key].s} ELSE {}
  IN sec("depths") \cup sec("audios")

\* The paths of a frame list named only through colors entries with a key in K.
OnlyViaDropped(frames, K) ==
  LET dropped == UNION {ViaColors(frames[i], K, TRUE) : i \in 1..Len(frames)}
      kept == UNION {ViaColors(frames[i], K, FALSE) \cup ViaOther(frames[i]) :
                       i \in 1..Len(frames)}
  IN dropped \ kept

\* C7 as stated: in a Filter run with drop set K, the resolved reference set
\* of an episode holds no path named only through dropped colors entries,
\* and no such path is a file of the destination episode.
C7_DroppedNeverCopied ==
  tool = "filter" =>
    /\ cur # "" => refs \cap OnlyViaDropped(SrcDocFrames(cur), args.drop_cameras) = {}
    /\ \A e \in BatchNames : Materialised(e) =>
         \A p \in OnlyViaDropped(SrcDocFrames(e), args.drop_cameras) :
           ~FileExists(fs, DstRoot, e, p)

\* What does hold of C7: the resolved reference set holds no path named only
\* through dropped colors entries, and such a path is a file of the
\* destination episode only when it names a file directly in the episode root.
C7_DroppedOnlyAtRoot ==
  tool = "filter" =>
    /\ cur # "" => refs \cap OnlyViaDropped(SrcDocFrames(cur), args.drop_cameras) = {}
    /\ \A e \in BatchNames : Materialised(e) =>
         \A p \in OnlyViaDropped(SrcDocFrames(e), args.drop_cameras) :
           FileExists(fs, DstRoot, e, p) => IsRootLevel(p)

\* A run that materializes and has completed.
Completed ==
  /\ pc = "done"
  /\ tool = "cut" \/ ~args.dry_run

\* The source episode that destination episode e is made from.
SrcOf(e) == IF tool = "cut" THEN CutSrc ELSE e

\* The destination episodes of a run.
DstEpisodes == IF tool = "cut" THEN {CutDst} ELSE {e \in BatchNames : Materialised(e)}

\* The root the destination episodes are under.
DstBase == IF tool = "cut" THEN "S" ELSE DstRoot

\* The resolved reference set of the transformed episode written as e.
Resolved(e) ==
  IF tool = "cut" THEN collect_referenced_files(CutDoc(j, cut))
  ELSE IF ~FileExists(fs0, "S", e, PData) THEN {}
  ELSE IF tool = "copy" THEN collect_referenced_files(SrcDoc(e))
  ELSE collect_referenced_files(
         FilterDoc(SrcDoc(e), args.drop_cameras, args.drop_joint_groups))

\* path p of destination episode e holds what the source file held
SameAsSource(e, p) ==
  /\ FileExists(fs, DstBase, e, p)
  /\ FileAt(fs, DstBase, e, p) = FileAt(fs0, "S", SrcOf(e), p)

\* C8 as stated: after a completed materialization every resolved path whose
\* file exists at the source is at the destination with the source's content.
C8_AllCopied ==
  Completed =>
    \A e \in DstEpisodes : \A p \in Resolved(e) :
      FileExists(fs0, "S", SrcOf(e), p) => SameAsSource(e, p)

\* C8 amended: the same for every resolved path other than data.json, the
\* path of the metadata document itself.
C8_AllCopiedButMetadata ==
  Completed =>
    \A e \in DstEpisodes : \A p \in Resolved(e) \ {PData} :
      FileExists(fs0, "S", SrcOf(e), p) => SameAsSource(e, p)

\* C8 witness: a completed Cut over a file left by an earlier run, whose
\* frames also name data.json: colors/c0 now holds the source's content.
C8_Witness ==
  /\ Completed /\ tool = "cut" /\ args.out_episode = 1
  /\ {PData, PC0} \subseteq Resolved(CutDst)
  /\ FileAt(fs0, "S", CutDst, PC0) = OldBlob
  /\ SameAsSource(CutDst, PC0)

\* The copy step that is next handles a referenced path whose file is absent
\* at the source.
AtMissingAsset ==
  /\ pc = "copy" /\ todo # <<>>
  /\ \/ /\ tool = "cut" /\ Head(todo).kind = "copy"
        /\ ~FileExists(fs, "S", CutSrc, Head(todo).rel)
     \/ tool = "filter" /\ ~FileExists(fs, "S", cur, Head(todo))

\* what a completed materialization leaves for destination episode e
MissingTolerated(e) ==
  /\ Op("write", DstBase, e, PData) \in Range(ops)
  /\ FileExists(fs, DstBase, e, PData)
  /\ \A p \in Resolved(e) :
       IF FileExists(fs0, "S", SrcOf(e), p)
       THEN Op("copy", DstBase, e, p) \in Range(ops)
       ELSE /\ Op("copy", DstBase, e, p) \notin Range(ops)
            /\ p \in collect_referenced_files(FileAt(fs, DstBase, e, PData).doc)

\* The run has ended in an error raised inside the loop that copies the
\* referenced files.
CopyLoopAborted == pc = "error" /\ todo # <<>>

\* Some file the work list of the copy loop names is absent at the source.
SomeAssetMissing ==
  \/ /\ tool = "cut"
     /\ \E i \in 1..Len(todo) :
          todo[i].kind = "copy" /\ ~FileExists(fs0, "S", CutSrc, todo[i].rel)
  \/ /\ tool = "filter"
     /\ \E i \in 1..Len(todo) : ~FileExists(fs0, "S", cur, todo[i])

\* C9: with any subset of the referenced files absent at the source, the
\* materialization into an episode other than the source is not aborted, and
\* once complete it has copied every
\* referenced file that exists and has written the metadata document, which
\* still names the absent paths.
C9_CompletesDespiteMissing ==
  /\ (SomeAssetMissing /\ (tool = "cut" => CutDst # CutSrc)) => ~CopyLoopAborted
  /\ (Completed /\ tool # "copy") => \A e \in DstEpisodes : MissingTolerated(e)

\* What does hold of C9: the copy of a referenced path whose source file is
\* absent is skipped and the run goes on with the next path; a completed Cut
\* or Filter has copied every referenced file that exists at the source and
\* has written the metadata document, which still names the absent paths.
C9_MissingSkipped ==
  /\ [][AtMissingAsset => (pc' = "copy" /\ err' = "none" /\ todo' = Tail(todo))]_vars
  /\ []((Completed /\ tool # "copy") => \A e \in DstEpisodes : MissingTolerated(e))

\* C9 witness: a completed run in which one referenced file was absent at
\* the source and another was copied.
C9_Witness ==
  /\ Completed /\ tool \in {"cut", "filter"}
  /\ \E e \in DstEpisodes : \E p, q \in Resolved(e) :
       /\ ~FileExists(fs0, "S", SrcOf(e), p)
       /\ ~FileExists(fs, DstBase, e, p)
       /\ FileExists(fs0, "S", SrcOf(e), q)
       /\ Op("copy", DstBase, e, q) \in Range(ops)
       /\ MissingTolerated(e)

\* The sets of camera keys a Filter run may drop.
CameraSets == SUBSET {"color_0", "color_1"}

StripAll(frames) == [i \in 1..Len(frames) |-> StripIdx(frames[i])]

\* Filter after Cut and Cut after Filter agree on frame list f for drop set K
\* and range [s, t), whatever the two reindexing choices are.
Commute(f, K, s, t, keep1, keep2) ==
  LET a == FilterCameras(CutFrames(f, s, t, keep1), K)
      b == CutFrames(FilterCameras(f, K), s, t, keep2)
  IN /\ StripAll(a) = StripAll(b)
     /\ FramesRefs(a) = FramesRefs(b)

\* A tool has just loaded frame list f: Cut its input episode, Filter the
\* episode it is about to write.
JustLoaded(f) ==
  \/ tool = "cut" /\ pc = "mkdirs" /\ f = CutSrcFrames
  \/ tool = "filter" /\ pc = "mkep" /\ f = SrcDocFrames(cur)

\* C10: for the frame list of every episode a tool loads, every camera drop
\* set K and every range 0 <= s < t <= len, filtering K out of the cut equals
\* cutting the filtered list, frame by frame apart from idx, and both name
\* the same asset paths; in the run at hand, filtering the frames Cut kept
\* gives the frames Cut would keep of the filtered list, and cutting the
\* frames Filter wrote gives the filtered cut.
C10_FilterCutCommute ==
  \A f \in FrameLists : JustLoaded(f) =>
    /\ \A K \in CameraSets : \A s \in 0..Len(f), t \in 0..Len(f) :
         s < t => \A keep1, keep2 \in BOOLEAN : Commute(f, K, s, t, keep1, keep2)
    /\ tool = "cut" =>
         \A K \in CameraSets :
           FilterCameras(cut, K) =
             Slice(FilterCameras(f, K), ClampStart(args.start),
                   ClampEnd(Len(f), args.end))
    /\ tool = "filter" =>
         \A s \in 0..Len(f), t \in 0..Len(f) :
           s < t => Slice(Get(j, "data", JList(<<>>)).l, s, t) =
                      FilterJointGroups(
                        FilterCameras(Slice(f, s, t), args.drop_cameras),
                        args.drop_joint_groups)

\* C10 witness: Cut has kept the second frame only of a two-frame list, and
\* dropping color_1 changes that frame.
C10_Witness ==
  /\ tool = "cut" /\ pc = "mkdirs"
  /\ Len(CutSrcFrames) = 2 /\ cut = <<CutSrcFrames[2]>>
  /\ FilterCameras(cut, {"color_1"}) # cut
  /\ CutSrcFrames[1] # CutSrcFrames[2]

\* ------------------------------------------------------------------- C11
\* The keys of a mapping; a value that is no mapping has none.
Keys(v) == IF IsMap(v) THEN DOMAIN v.m ELSE {}

StateKeys(step) == Keys(Get(step, "states", JNull))
ActionKeys(step) == Keys(Get(step, "actions", JNull))

\* The name tables of the info block of document dj.
TableKeys(dj, table) ==
  LET info == Get(dj, "info", JNull) IN
  IF IsMap(info) THEN Keys(Get(info.m, table, JNull)) ELSE {}

DocFrames(dj) ==
  LET dl == Get(dj, "data", JList(<<>>)) IN IF IsList(dl) THEN dl.l ELSE <<>>

\* Every frame has the same group keys, in states and in actions, and so the
\* same groups overall.
Homogeneous(frames) ==
  \A a, b \in 1..Len(frames) :
    /\ StateKeys(frames[a]) = StateKeys(frames[b])
    /\ ActionKeys(frames[a]) = ActionKeys(frames[b])

SameGroups(frames) ==
  \A a, b \in 1..Len(frames) :
    StateKeys(frames[a]) \cup ActionKeys(frames[a]) =
      StateKeys(frames[b]) \cup ActionKeys(frames[b])

\* Document out is document src with the groups of G removed uniformly.
UniformlyRemoved(src, out, G) ==
  /\ \A i \in 1..Len(DocFrames(out)) :
       /\ StateKeys(DocFrames(out)[i]) = StateKeys(DocFrames(src)[i]) \ G
       /\ ActionKeys(DocFrames(out)[i]) = ActionKeys(DocFrames(src)[i]) \ G
  /\ Len(DocFrames(out)) = Len(DocFrames(src))
  /\ TableKeys(out, "joint_names") = TableKeys(src, "joint_names") \ G
  /\ TableKeys(out, "tactile_names") = TableKeys(src, "tactile_names") \ G
  /\ Homogeneous(DocFrames(src)) => Homogeneous(DocFrames(out))
  /\ SameGroups(DocFrames(src)) => SameGroups(DocFrames(out))

\* The joint-group sets a Filter run may be given.
GroupSets == SUBSET {"left_arm", "right_arm", "waist"}

\* Filter has just written the metadata document of episode cur.
JustWritten ==
  /\ tool = "filter" /\ ops # <<>>
  /\ ops[Len(ops)] = Op("write", DstRoot, cur, PData)

Transformed(e) ==
  IF tool = "cut" THEN CutDoc(j, cut)
  ELSE FilterDoc(SrcDoc(e), args.drop_cameras, args.drop_joint_groups)

\* The positions in the log of the steps that put a file at the data.json
\* path of destination episode e, and of those that are the metadata write.
MetadataTouches(e) ==
  {i \in 1..Len(ops) : /\ ops[i].root = DstBase /\ ops[i].ep = e
                       /\ ops[i].path = PData
                       /\ ops[i].op \in {"write", "copy"}}

MetadataWrites(e) == {i \in MetadataTouches(e) : ops[i].op = "write"}

\* Every root-level file of the source episode other than data.json was
\* copied before position w of the log.
AuxBefore(e, w) ==
  tool = "filter" =>
    \A p \in AuxFiles(fs0, "S", e) :
      \E i \in 1..(w - 1) : ops[i] = Op("copy", DstBase, e, p)

\* C12: in a completed Cut or Filter run the metadata document of every
\* destination episode is written exactly once, after the auxiliary copy, no
\* other step puts a file at the destination's data.json path, and the
\* destination data.json is the transformed episode.
C12_MetadataWrittenOnce ==
  (Completed /\ tool # "copy") =>
    \A e \in DstEpisodes :
      /\ Cardinality(MetadataWrites(e)) = 1
      /\ \A w \in MetadataWrites(e) : AuxBefore(e, w)
      /\ MetadataTouches(e) = MetadataWrites(e)
      /\ FileExists(fs, DstBase, e, PData)
      /\ FileAt(fs, DstBase, e, PData) = DocFile(Transformed(e))

\* What does hold of C12: the metadata document is written exactly once,
\* after the auxiliary copy, which never touches data.json; any other file
\* put at the data.json path is the copy of a referenced asset of that very
\* path, and the destination data.json is the transformed episode unless
\* Filter made such a copy, when it is the source document.
C12_WrittenOnceUnlessReferenced ==
  (Completed /\ tool # "copy") =>
    \A e \in DstEpisodes :
      /\ Cardinality(MetadataWrites(e)) = 1
      /\ \A w \in MetadataWrites(e) :
           /\ AuxBefore(e, w)
           /\ \A i \in MetadataTouches(e) \ {w} :
                /\ PData \in Resolved(e)
                /\ tool = "cut" <=> i < w
      /\ FileExists(fs, DstBase, e, PData)
      /\ FileAt(fs, DstBase, e, PData) =
           IF tool = "filter" /\ PData \in Resolved(e)
           THEN FileAt(fs0, "S", e, PData)
           ELSE DocFile(Transformed(e))

\* ------------------------------------------------------------------- C13
\* The paths Cut's copy loop hands to copy_rel_file for frame list frames.
Attempted(frames) ==
  LET w == CutWork(frames) IN
  {w[i].rel : i \in {x \in 1..Len(w) : w[x].kind = "copy"}}

\* The errors Cut raises before it looks at any frame.
LoadErrors == {"MissingMetadata", "EmptyEpisode", "InvalidRange"}

\* Some frame of the list gives a section as a single path string.
HasStringSection(frames) ==
  \E i \in 1..Len(frames) : \E k \in 1..3 :
    IsStr(Get(frames[i], CutSections[k], JNull)) /\
    Truthy(Get(frames[i], CutSections[k], JNull))

\* C13: when a Cut run into an episode other than the source has ended, the
\* paths its copy loop names for the cut frames are exactly
\* collect_referenced_files of those frames, and it has not ended in an error
\* of the copy loop, which the resolver does not have.
C13_CutCopiesResolved ==
  (tool = "cut" /\ Ended /\ CutDst # CutSrc) =>
    /\ Attempted(cut) = FramesRefs(cut)
    /\ pc = "error" => err \in LoadErrors

\* What does hold of C13: the two agree, and the copy loop raises nothing,
\* when no cut frame gives a section as a single path string.
C13_AgreeOnMappings ==
  (tool = "cut" /\ Ended /\ CutDst # CutSrc /\ ~HasStringSection(cut)) =>
    /\ Attempted(cut) = FramesRefs(cut)
    /\ pc = "error" => err \in LoadErrors

\* ------------------------------------------------------------------- C14
\* The episode directories the source root held before the run.
Discovered == Episodes(fs0, "S")

\* Index i is in the requested range; end = -1 asks for no upper limit.
InRange(i) == args.init <= i /\ (args.end = -1 \/ i <= args.end)

NoneInRange ==
  \A k \in 1..Len(Discovered) : ~InRange(EpIndex(Discovered[k]))

\* A batch run, into a root other than the source, that got past the checks
\* of its arguments and of its destination and has ended.
RangeChecked ==
  /\ Batch /\ Ended /\ DstRoot # "S"
  /\ err \notin {"Usage", "DestinationExists"}

\* C14: a batch run that finds no episode directory with an index in the
\* requested range ends in the no-episode-in-range error, with the
\* destination root what it was before the run: not created, not deleted.
C14_NoEpisodeInRange ==
  (RangeChecked /\ NoneInRange) =>
    /\ pc = "error" /\ err = "NoEpisodes"
    /\ DstTree(fs) = DstTree(fs0)

\* What does hold of C14: such a run ends in an error and creates no
\* destination root; the error is the no-episode-in-range error unless
\* Filter, asked for no upper limit, found no episode directory at all, and
\* the destination is what it was unless --overwrite had it deleted; the
\* file and the directory of the source root that are no episodes never
\* make a run fail at discovery.
C14_NoEpisodeUnlessEmptyOrOverwrite ==
  /\ (RangeChecked /\ NoneInRange) =>
       /\ pc = "error"
       /\ err = IF tool = "filter" /\ args.end = -1 /\ Discovered = <<>>
                THEN "IndexError" ELSE "NoEpisodes"
       /\ DstTree(fs) = IF fs0[DstRoot].exists /\ args.overwrite /\ ~args.dry_run
                        THEN NoRoot ELSE DstTree(fs0)
  /\ (RangeChecked /\ ~NoneInRange) =>
       (pc = "error" => err \in {"MissingMetadata", "InvalidData"})
====
